---- MODULE Spec2Model ----
(***************************************************************************)
(* A model of the Hack assembler of hdk.assembly: the line parser          *)
(* (parser.py) and the two-pass translator (translator.py).                *)
(*                                                                         *)
(* Text is modelled as a sequence of one-character strings, so that the    *)
(* conversions of the code (int(), format(), zfill(), re.split) are        *)
(* computed, not assumed.  An optional field (dest=None) is a tuple of     *)
(* length at most one: None is <<>> and a present value x is <<x>>.        *)
(***************************************************************************)
EXTENDS Integers, Sequences, FiniteSets, TLC

VARIABLES
  \* ---- translate(): one run of the generator
  pc,                      \* "labels" | "encode" | "done" | "error"
  instructions,            \* the items the first loop has taken from its input
  symbol_table,            \* SymbolTable.data
  last_variable_location,  \* SymbolTable._last_variable_location
  ac_instructions,         \* the filtered list built by the first loop
  idx,                     \* how many entries of ac_instructions are encoded
  out,                     \* the lines yielded so far
  err,                     \* the exception that ended the run, "none" if none
  \* ---- parse_code(): one run of the generator
  ppc,                     \* "running" | "done" | "error"
  enum_count,              \* enumerate()'s counter
  line_num,                \* the loop variable line_num
  line,                    \* the loop variable line (the raw text)
  instruction,             \* preprocess(line)
  yielded,                 \* the last value yielded, None before the first
  nyielded,                \* how many values were yielded
  nskipped,                \* how many lines were skipped by `continue`
  perr,                    \* the line number in the error message, 0 if none
  \* ---- parse(): one call
  token,                   \* the argument
  parsed,                  \* "pending", or the call's outcome
  \* ---- translate_c_instruction(): one call
  cinstr,                  \* the argument
  cresult                  \* "pending", or the call's outcome

tvars == <<pc, instructions, symbol_table, last_variable_location,
           ac_instructions, idx, out, err>>
pvars == <<ppc, enum_count, line_num, line, instruction, yielded, nyielded,
           nskipped, perr>>
kvars == <<token, parsed>>
cvars == <<cinstr, cresult>>
vars == <<tvars, pvars, kvars, cvars>>

----------------------------------------------------------------------------
(* Bounds of the model *)

\* the longest instruction stream handed to translate
MaxLen == 4
\* the most raw lines handed to parse_code
MaxLines == 3
\* the longest raw line handed to parse_code
MaxLineLen == 3
\* the longest token handed to parse
MaxTokLen == 5

----------------------------------------------------------------------------
(* Text helpers *)

None == <<>>
Some(x) == <<x>>

Digits == <<"0", "1", "2", "3", "4", "5", "6", "7", "8", "9">>

DigitSet == {Digits[i] : i \in 1..10}

DigitValue(c) == (CHOOSE i \in 1..10 : Digits[i] = c) - 1

\* str(n) for a non-negative n, as used by f"R{i}"
RECURSIVE IntToStr(_)
IntToStr(n) ==
  IF n < 10 THEN <<Digits[n + 1]>>
  ELSE IntToStr(n \div 10) \o <<Digits[(n % 10) + 1]>>

\* int(s) for a string of decimal digits
RECURSIVE StrToInt(_)
StrToInt(s) ==
  IF Len(s) = 0 THEN 0
  ELSE 10 * StrToInt(SubSeq(s, 1, Len(s) - 1)) + DigitValue(s[Len(s)])

\* f"{value:b}" for a non-negative value
RECURSIVE FormatBinary(_)
FormatBinary(value) ==
  IF value < 2 THEN <<Digits[value + 1]>>
  ELSE FormatBinary(value \div 2) \o <<Digits[(value % 2) + 1]>>

\* str.zfill(size): pads on the left, never truncates
RECURSIVE zfill(_, _)
zfill(s, size) == IF Len(s) >= size THEN s ELSE zfill(<<"0">> \o s, size)

----------------------------------------------------------------------------
(* hdk.assembly.syntax: the three instruction values *)

Label(symbol) == [kind |-> "Label", symbol |-> symbol]
AInstruction(symbol) == [kind |-> "A", symbol |-> symbol]
CInstruction(comp, dest, jump) ==
  [kind |-> "C", comp |-> comp, dest |-> dest, jump |-> jump]

\* AInstruction.is_constant: the symbol is a non-negative integer literal
is_constant(a) ==
  /\ Len(a.symbol) > 0
  /\ \A i \in 1..Len(a.symbol) : a.symbol[i] \in DigitSet

----------------------------------------------------------------------------
(* translator.py: the encoding tables *)

COMP_TRANSLATION_TABLE ==
  (<<"0">> :> <<"0", "1", "0", "1", "0", "1", "0">>) @@
  (<<"1">> :> <<"0", "1", "1", "1", "1", "1", "1">>) @@
  (<<"-", "1">> :> <<"0", "1", "1", "1", "0", "1", "0">>) @@
  (<<"D">> :> <<"0", "0", "0", "1", "1", "0", "0">>) @@
  (<<"A">> :> <<"0", "1", "1", "0", "0", "0", "0">>) @@
  (<<"!", "D">> :> <<"0", "0", "0", "1", "1", "0", "1">>) @@
  (<<"!", "A">> :> <<"0", "1", "1", "0", "0", "0", "1">>) @@
  (<<"-", "D">> :> <<"0", "0", "0", "1", "1", "1", "1">>) @@
  (<<"-", "A">> :> <<"0", "1", "1", "0", "0", "1", "1">>) @@
  (<<"D", "+", "1">> :> <<"0", "0", "1", "1", "1", "1", "1">>) @@
  (<<"A", "+", "1">> :> <<"0", "1", "1", "0", "1", "1", "1">>) @@
  (<<"D", "-", "1">> :> <<"0", "0", "0", "1", "1", "1", "0">>) @@
  (<<"A", "-", "1">> :> <<"0", "1", "1", "0", "0", "1", "0">>) @@
  (<<"D", "+", "A">> :> <<"0", "0", "0", "0", "0", "1", "0">>) @@
  (<<"D", "-", "A">> :> <<"0", "0", "1", "0", "0", "1", "1">>) @@
  (<<"A", "-", "D">> :> <<"0", "0", "0", "0", "1", "1", "1">>) @@
  (<<"D", "&", "A">> :> <<"0", "0", "0", "0", "0", "0", "0">>) @@
  (<<"D", "|", "A">> :> <<"0", "0", "1", "0", "1", "0", "1">>) @@
  (<<"M">> :> <<"1", "1", "1", "0", "0", "0", "0">>) @@
  (<<"!", "M">> :> <<"1", "1", "1", "0", "0", "0", "1">>) @@
  (<<"-", "M">> :> <<"1", "1", "1", "0", "0", "1", "1">>) @@
  (<<"M", "+", "1">> :> <<"1", "1", "1", "0", "1", "1", "1">>) @@
  (<<"M", "-", "1">> :> <<"1", "1", "1", "0", "0", "1", "0">>) @@
  (<<"D", "+", "M">> :> <<"1", "0", "0", "0", "0", "1", "0">>) @@
  (<<"D", "-", "M">> :> <<"1", "0", "1", "0", "0", "1", "1">>) @@
  (<<"M", "-", "D">> :> <<"1", "0", "0", "0", "1", "1", "1">>) @@
  (<<"D", "&", "M">> :> <<"1", "0", "0", "0", "0", "0", "0">>) @@
  (<<"D", "|", "M">> :> <<"1", "0", "1", "0", "1", "0", "1">>)

DEST_TRANSLATION_TABLE ==
  (None :> <<"0", "0", "0">>) @@
  (Some(<<"M">>) :> <<"0", "0", "1">>) @@
  (Some(<<"D">>) :> <<"0", "1", "0">>) @@
  (Some(<<"D", "M">>) :> <<"0", "1", "1">>) @@
  (Some(<<"A">>) :> <<"1", "0", "0">>) @@
  (Some(<<"A", "M">>) :> <<"1", "0", "1">>) @@
  (Some(<<"A", "D">>) :> <<"1", "1", "0">>) @@
  (Some(<<"A", "D", "M">>) :> <<"1", "1", "1">>)

JMP_TRANSLATION_TABLE ==
  (None :> <<"0", "0", "0">>) @@
  (Some(<<"J", "G", "T">>) :> <<"0", "0", "1">>) @@
  (Some(<<"J", "E", "Q">>) :> <<"0", "1", "0">>) @@
  (Some(<<"J", "G", "E">>) :> <<"0", "1", "1">>) @@
  (Some(<<"J", "L", "T">>) :> <<"1", "0", "0">>) @@
  (Some(<<"J", "N", "E">>) :> <<"1", "0", "1">>) @@
  (Some(<<"J", "L", "E">>) :> <<"1", "1", "0">>) @@
  (Some(<<"J", "M", "P">>) :> <<"1", "1", "1">>)

----------------------------------------------------------------------------
(* translator.py: SymbolTable *)

RegisterCount == 16

predefined_symbols ==
  [s \in {<<"R">> \o IntToStr(i) : i \in 0..(RegisterCount - 1)} |->
      CHOOSE i \in 0..(RegisterCount - 1) : s = <<"R">> \o IntToStr(i)] @@
  (<<"S", "P">> :> 0) @@
  (<<"L", "C", "L">> :> 1) @@
  (<<"A", "R", "G">> :> 2) @@
  (<<"T", "H", "I", "S">> :> 3) @@
  (<<"T", "H", "A", "T">> :> 4) @@
  (<<"S", "C", "R", "E", "E", "N">> :> 16384) @@
  (<<"K", "B", "D">> :> 24576)

\* SymbolTable.__init__: the starting value of _last_variable_location
InitialVariableLocation == 15

\* the field width translate_a_instruction passes to _convert_to_binary
AddressBits == 15

\* symbol_table[symbol] = address, on a table t
SetItem(t, symbol, address) ==
  [s \in DOMAIN t \cup {symbol} |-> IF s = symbol THEN address ELSE t[s]]

\* a variant that hands out the location before it advances it
map_variable_stale(t, last, symbol) ==
  IF symbol \in DOMAIN t
  THEN [raised |-> TRUE, data |-> t, last |-> last, value |-> 0]
  ELSE [raised |-> FALSE, data |-> SetItem(t, symbol, last),
        last |-> last + 1, value |-> last]

\* SymbolTable.map_variable: whether it raised, data and
\* _last_variable_location after the call, and the value returned
map_variable(t, last, symbol) ==
  IF symbol \in DOMAIN t
  THEN [raised |-> TRUE, data |-> t, last |-> last, value |-> 0]
  ELSE [raised |-> FALSE, data |-> SetItem(t, symbol, last + 1),
        last |-> last + 1, value |-> last + 1]

_convert_to_binary(value, size) == zfill(FormatBinary(value), size)

\* translate_a_instruction: the line, and the table after the call
translate_a_instruction(a, t, last) ==
  IF is_constant(a)
  THEN [raised |-> FALSE, data |-> t, last |-> last,
        text |-> <<"0">> \o _convert_to_binary(StrToInt(a.symbol), AddressBits)]
  ELSE IF a.symbol \in DOMAIN t
  THEN [raised |-> FALSE, data |-> t, last |-> last,
        text |-> <<"0">> \o _convert_to_binary(t[a.symbol], AddressBits)]
  ELSE LET m == map_variable(t, last, a.symbol)
       IN [raised |-> m.raised, data |-> m.data, last |-> m.last,
           text |-> <<"0">> \o _convert_to_binary(m.value, AddressBits)]

\* translate_c_instruction raises KeyError when a table lookup misses
c_raises(c) ==
  \/ c.comp \notin DOMAIN COMP_TRANSLATION_TABLE
  \/ c.dest \notin DOMAIN DEST_TRANSLATION_TABLE
  \/ c.jump \notin DOMAIN JMP_TRANSLATION_TABLE

\* a variant that writes the jump bits before the dest bits
translate_c_instruction_swapped(c) ==
  <<"1", "1", "1">>
    \o COMP_TRANSLATION_TABLE[c.comp]
    \o JMP_TRANSLATION_TABLE[c.jump]
    \o DEST_TRANSLATION_TABLE[c.dest]

\* translate_c_instruction, when no lookup misses
translate_c_instruction(c) ==
  <<"1", "1", "1">>
    \o COMP_TRANSLATION_TABLE[c.comp]
    \o DEST_TRANSLATION_TABLE[c.dest]
    \o JMP_TRANSLATION_TABLE[c.jump]

----------------------------------------------------------------------------
(* translator.py: translate *)

\* The instructions a stream handed to translate is drawn from: labels (two
\* new names, a predefined name), address instructions (a label, two
\* variables, a predefined name, the largest 15-bit constant, the smallest
\* 16-bit one) and compute instructions (one in the tables, one with an
\* unknown comp).
InstrSet ==
  { Label(<<"L">>), Label(<<"E">>), Label(<<"S", "P">>),
    AInstruction(<<"L">>), AInstruction(<<"i">>), AInstruction(<<"j">>),
    AInstruction(<<"S", "P">>),
    AInstruction(<<"3", "2", "7", "6", "7">>),
    AInstruction(<<"3", "2", "7", "6", "8">>),
    CInstruction(<<"D", "+", "1">>, Some(<<"M">>), None),
    CInstruction(<<"X">>, None, Some(<<"J", "M", "P">>)) }

TranslateInit ==
  /\ pc = "labels"
  /\ instructions = <<>>
  /\ symbol_table = predefined_symbols
  /\ last_variable_location = InitialVariableLocation
  /\ ac_instructions = <<>>
  /\ idx = 0
  /\ out = <<>>
  /\ err = "none"

\* a variant that skips a label it already knows, without raising
LabelDuplicateIgnored(ins) ==
  /\ pc = "labels"
  /\ Len(instructions) < MaxLen
  /\ ins.kind = "Label"
  /\ ins.symbol \in DOMAIN symbol_table
  /\ instructions' = Append(instructions, ins)
  /\ UNCHANGED <<pc, err, symbol_table, last_variable_location, ac_instructions,
                 idx, out>>
  /\ UNCHANGED <<pvars, kvars, cvars>>

\* first loop, a Label whose symbol is already in the table: raise
LabelDuplicate(ins) ==
  /\ pc = "labels"
  /\ Len(instructions) < MaxLen
  /\ ins.kind = "Label"
  /\ ins.symbol \in DOMAIN symbol_table
  /\ instructions' = Append(instructions, ins)
  /\ pc' = "error"
  /\ err' = "ValueError"
  /\ UNCHANGED <<symbol_table, last_variable_location, ac_instructions, idx, out>>
  /\ UNCHANGED <<pvars, kvars, cvars>>

\* a variant that counts the instruction the label stands for
LabelAddressOffByOne(acs) == Len(acs) + 1

\* where the first loop binds a label: len(ac_instructions)
LabelAddress(acs) == Len(acs)

\* a variant without the membership test: it binds the label again
LabelDefineRebinding(ins) ==
  /\ pc = "labels"
  /\ Len(instructions) < MaxLen
  /\ ins.kind = "Label"
  /\ instructions' = Append(instructions, ins)
  /\ symbol_table' = SetItem(symbol_table, ins.symbol, Len(ac_instructions))
  /\ UNCHANGED <<pc, last_variable_location, ac_instructions, idx, out, err>>
  /\ UNCHANGED <<pvars, kvars, cvars>>

\* first loop, a Label with a new symbol: bind it
LabelDefine(ins) ==
  /\ pc = "labels"
  /\ Len(instructions) < MaxLen
  /\ ins.kind = "Label"
  /\ ins.symbol \notin DOMAIN symbol_table
  /\ instructions' = Append(instructions, ins)
  /\ symbol_table' = SetItem(symbol_table, ins.symbol, LabelAddress(ac_instructions))
  /\ UNCHANGED <<pc, last_variable_location, ac_instructions, idx, out, err>>
  /\ UNCHANGED <<pvars, kvars, cvars>>

\* a variant that inserts at the front
CollectFront(acs, ins) == <<ins>> \o acs

\* ac_instructions.append(instruction)
Collect(acs, ins) == Append(acs, ins)

\* a variant that encodes an address instruction as soon as it is read, in
\* the same loop that binds the labels
LabelCollectStreaming(ins) ==
  /\ pc = "labels"
  /\ Len(instructions) < MaxLen
  /\ ins.kind # "Label"
  /\ instructions' = Append(instructions, ins)
  /\ ac_instructions' = Append(ac_instructions, ins)
  /\ IF ins.kind = "A" /\ idx = Len(ac_instructions)
     THEN LET r == translate_a_instruction(ins, symbol_table, last_variable_location)
          IN /\ symbol_table' = r.data
             /\ last_variable_location' = r.last
             /\ out' = Append(out, r.text)
             /\ idx' = idx + 1
     ELSE UNCHANGED <<symbol_table, last_variable_location, out, idx>>
  /\ UNCHANGED <<pc, err>>
  /\ UNCHANGED <<pvars, kvars, cvars>>

\* first loop, an address or compute instruction: keep it
LabelCollect(ins) ==
  /\ pc = "labels"
  /\ Len(instructions) < MaxLen
  /\ ins.kind # "Label"
  /\ instructions' = Append(instructions, ins)
  /\ ac_instructions' = Collect(ac_instructions, ins)
  /\ UNCHANGED <<pc, symbol_table, last_variable_location, idx, out, err>>
  /\ UNCHANGED <<pvars, kvars, cvars>>

\* the input is exhausted: the second loop starts
LabelPassEnd ==
  /\ pc = "labels"
  /\ pc' = "encode"
  /\ UNCHANGED <<instructions, symbol_table, last_variable_location,
                 ac_instructions, idx, out, err>>
  /\ UNCHANGED <<pvars, kvars, cvars>>

\* second loop, an AInstruction: yield translate_a_instruction(...)
EncodeA ==
  /\ pc = "encode"
  /\ idx < Len(ac_instructions)
  /\ ac_instructions[idx + 1].kind = "A"
  /\ LET r == translate_a_instruction(ac_instructions[idx + 1], symbol_table,
                                      last_variable_location)
     IN /\ symbol_table' = r.data
        /\ last_variable_location' = r.last
        /\ IF r.raised
           THEN pc' = "error" /\ err' = "ValueError" /\ UNCHANGED <<idx, out>>
           ELSE /\ out' = Append(out, r.text)
                /\ idx' = idx + 1
                /\ UNCHANGED <<pc, err>>
  /\ UNCHANGED <<instructions, ac_instructions>>
  /\ UNCHANGED <<pvars, kvars, cvars>>

\* second loop, a CInstruction: yield translate_c_instruction(...)
EncodeC ==
  /\ pc = "encode"
  /\ idx < Len(ac_instructions)
  /\ ac_instructions[idx + 1].kind = "C"
  /\ ~c_raises(ac_instructions[idx + 1])
  /\ out' = Append(out, translate_c_instruction(ac_instructions[idx + 1]))
  /\ idx' = idx + 1
  /\ UNCHANGED <<pc, instructions, symbol_table, last_variable_location,
                 ac_instructions, err>>
  /\ UNCHANGED <<pvars, kvars, cvars>>

\* second loop, a CInstruction a table does not know: KeyError
EncodeCRaise ==
  /\ pc = "encode"
  /\ idx < Len(ac_instructions)
  /\ ac_instructions[idx + 1].kind = "C"
  /\ c_raises(ac_instructions[idx + 1])
  /\ pc' = "error"
  /\ err' = "KeyError"
  /\ UNCHANGED <<instructions, symbol_table, last_variable_location,
                 ac_instructions, idx, out>>
  /\ UNCHANGED <<pvars, kvars, cvars>>

\* the second loop is over: the generator returns
EncodeEnd ==
  /\ pc = "encode"
  /\ idx = Len(ac_instructions)
  /\ pc' = "done"
  /\ UNCHANGED <<instructions, symbol_table, last_variable_location,
                 ac_instructions, idx, out, err>>
  /\ UNCHANGED <<pvars, kvars, cvars>>

TranslateNext ==
  \/ \E ins \in InstrSet : LabelDuplicate(ins)
  \/ \E ins \in InstrSet : LabelDefine(ins)
  \/ \E ins \in InstrSet : LabelCollect(ins)
  \/ LabelPassEnd
  \/ EncodeA
  \/ EncodeC
  \/ EncodeCRaise
  \/ EncodeEnd

----------------------------------------------------------------------------
(* parser.py: preprocess *)

\* "//" in line, and line.index("//")
HasComment(l) == \E i \in 1..(Len(l) - 1) : l[i] = "/" /\ l[i + 1] = "/"

CommentIndex(l) ==
  CHOOSE i \in 1..(Len(l) - 1) :
    /\ l[i] = "/" /\ l[i + 1] = "/"
    /\ \A j \in 1..(i - 1) : ~(l[j] = "/" /\ l[j + 1] = "/")

remove_comments(l) ==
  IF ~HasComment(l) THEN l ELSE SubSeq(l, 1, CommentIndex(l) - 1)

\* the characters of the model that \s matches
Whitespace == {" ", "\t", "\n", "\r", "\f"}

RECURSIVE remove_whitespaces(_)
remove_whitespaces(l) ==
  IF Len(l) = 0 THEN <<>>
  ELSE IF Head(l) \in Whitespace THEN remove_whitespaces(Tail(l))
  ELSE <<Head(l)>> \o remove_whitespaces(Tail(l))

preprocess(l) == remove_whitespaces(remove_comments(l))

----------------------------------------------------------------------------
(* parser.py: parse *)

\* str.count of a one-character string
Count(s, c) == Cardinality({i \in 1..Len(s) : s[i] = c})

\* re.split("=|;", s)
RECURSIVE re_split(_)
re_split(s) ==
  IF \A i \in 1..Len(s) : s[i] \notin {"=", ";"} THEN <<s>>
  ELSE LET k == CHOOSE i \in 1..Len(s) :
                  /\ s[i] \in {"=", ";"}
                  /\ \A j \in 1..(i - 1) : s[j] \notin {"=", ";"}
       IN <<SubSeq(s, 1, k - 1)>> \o re_split(SubSeq(s, k + 1, Len(s)))

\* the two guards `semicolon_count > 1` and `equal_sign_count > 1`
TooMany(count) == count > 1

\* a variant that always takes comp from the first part
SplitFieldsCompFirst(parts, equal_sign_count, semicolon_count) ==
  CInstruction(parts[1],
               IF equal_sign_count # 0 THEN Some(parts[1]) ELSE None,
               IF semicolon_count # 0 THEN Some(parts[Len(parts)]) ELSE None)

\* the fields of the CInstruction parse builds from re.split's parts
SplitFields(parts, equal_sign_count, semicolon_count) ==
  CInstruction(IF equal_sign_count # 0 THEN parts[2] ELSE parts[1],
               IF equal_sign_count # 0 THEN Some(parts[1]) ELSE None,
               IF semicolon_count # 0 THEN Some(parts[Len(parts)]) ELSE None)

\* parse: raised (ValueError), or the instruction value
parse(ins) ==
  IF Len(ins) > 0 /\ ins[1] = "@"
  THEN [raised |-> FALSE, value |-> AInstruction(SubSeq(ins, 2, Len(ins)))]
  ELSE IF Len(ins) > 0 /\ ins[1] = "(" /\ ins[Len(ins)] = ")"
  THEN [raised |-> FALSE, value |-> Label(SubSeq(ins, 2, Len(ins) - 1))]
  ELSE IF TooMany(Count(ins, ";")) \/ TooMany(Count(ins, "="))
  THEN [raised |-> TRUE, value |-> Label(<<>>)]
  ELSE [raised |-> FALSE,
        value |-> SplitFields(re_split(ins), Count(ins, "="), Count(ins, ";"))]

\* The tokens handed to parse: every string up to MaxTokLen characters over the
\* two operators, the two markers that make a token an address instruction or
\* a label, and two letters.
TokenAlphabet == {"=", ";", "D", "M", "@", "(", ")"}

Tokens == UNION {[1..n -> TokenAlphabet] : n \in 0..MaxTokLen}

ParseInit ==
  /\ token \in Tokens
  /\ parsed = None

\* one call parse(token)
Parse ==
  /\ parsed = None
  /\ parsed' = Some(parse(token))
  /\ UNCHANGED token
  /\ UNCHANGED <<tvars, pvars, cvars>>

ParseNext == Parse

----------------------------------------------------------------------------
(* parser.py: parse_code *)

\* The raw lines handed to parse_code: every string up to MaxLineLen characters
\* over the two operators, the address marker, a blank and the comment
\* character (a single "/" and an "@" past the first place are plain text).
LineAlphabet == {"=", ";", "@", " ", "/"}

Lines == UNION {[1..n -> LineAlphabet] : n \in 0..MaxLineLen}

ParseCodeInit ==
  /\ ppc = "running"
  /\ enum_count = 0
  /\ line_num = 0
  /\ line = <<>>
  /\ instruction = <<>>
  /\ yielded = None
  /\ nyielded = 0
  /\ nskipped = 0
  /\ perr = 0

\* a variant that reports enumerate()'s zero-based index
ReportedLineZeroBased(n) == n

\* the number f"Cannot parse line {line_num + 1}." reports
ReportedLine(n) == n + 1

\* the loop takes a line that preprocesses to nothing: continue
ParseCodeSkip(l) ==
  /\ ppc = "running"
  /\ enum_count < MaxLines
  /\ Len(preprocess(l)) = 0
  /\ line_num' = enum_count
  /\ enum_count' = enum_count + 1
  /\ line' = l
  /\ instruction' = preprocess(l)
  /\ nskipped' = nskipped + 1
  /\ yielded' = None
  /\ UNCHANGED <<ppc, nyielded, perr>>
  /\ UNCHANGED <<tvars, kvars, cvars>>

\* the loop takes a line that parses: yield the instruction
ParseCodeYield(l) ==
  /\ ppc = "running"
  /\ enum_count < MaxLines
  /\ Len(preprocess(l)) # 0
  /\ ~parse(preprocess(l)).raised
  /\ line_num' = enum_count
  /\ enum_count' = enum_count + 1
  /\ line' = l
  /\ instruction' = preprocess(l)
  /\ yielded' = Some(parse(preprocess(l)).value)
  /\ nyielded' = nyielded + 1
  /\ UNCHANGED <<ppc, nskipped, perr>>
  /\ UNCHANGED <<tvars, kvars, cvars>>

\* the loop takes a line parse rejects: raise with the line number
ParseCodeRaise(l) ==
  /\ ppc = "running"
  /\ enum_count < MaxLines
  /\ Len(preprocess(l)) # 0
  /\ parse(preprocess(l)).raised
  /\ line_num' = enum_count
  /\ enum_count' = enum_count + 1
  /\ line' = l
  /\ instruction' = preprocess(l)
  /\ ppc' = "error"
  /\ perr' = ReportedLine(line_num')
  /\ yielded' = None
  /\ UNCHANGED <<nyielded, nskipped>>
  /\ UNCHANGED <<tvars, kvars, cvars>>

\* the input is exhausted: the generator returns
ParseCodeEnd ==
  /\ ppc = "running"
  /\ ppc' = "done"
  /\ yielded' = None
  /\ UNCHANGED <<enum_count, line_num, line, instruction, nyielded, nskipped, perr>>
  /\ UNCHANGED <<tvars, kvars, cvars>>

ParseCodeNext ==
  \/ \E l \in Lines : ParseCodeSkip(l)
  \/ \E l \in Lines : ParseCodeYield(l)
  \/ \E l \in Lines : ParseCodeRaise(l)
  \/ ParseCodeEnd

----------------------------------------------------------------------------
(* translator.py: one call of translate_c_instruction *)

\* The compute instructions handed to translate_c_instruction: every mnemonic
\* of the three tables, plus for each field some text no table holds (among
\* them the dest spellings MD and AMD, and a lower-case jump).
CompSet == DOMAIN COMP_TRANSLATION_TABLE \cup {<<"X">>, <<"M", "+", "D">>, <<>>}

DestSet ==
  DOMAIN DEST_TRANSLATION_TABLE \cup {Some(<<"M", "D">>), Some(<<"A", "M", "D">>), Some(<<>>)}

JumpSet == DOMAIN JMP_TRANSLATION_TABLE \cup {Some(<<"j", "m", "p">>), Some(<<>>)}

CInstrSet ==
  {CInstruction(c, d, j) : c \in CompSet, d \in DestSet, j \in JumpSet}

TranslateCInit ==
  /\ cinstr \in CInstrSet
  /\ cresult = None

\* the call returns its line
TranslateCReturn ==
  /\ cresult = None
  /\ ~c_raises(cinstr)
  /\ cresult' = Some([raised |-> FALSE, text |-> translate_c_instruction(cinstr)])
  /\ UNCHANGED cinstr
  /\ UNCHANGED <<tvars, pvars, kvars>>

\* the call raises KeyError
TranslateCRaise ==
  /\ cresult = None
  /\ c_raises(cinstr)
  /\ cresult' = Some([raised |-> TRUE, text |-> <<>>])
  /\ UNCHANGED cinstr
  /\ UNCHANGED <<tvars, pvars, kvars>>

TranslateCNext == TranslateCReturn \/ TranslateCRaise

----------------------------------------------------------------------------
(* The specifications: each runs one entry point and leaves the others idle *)

TranslateIdle ==
  /\ pc = "idle"
  /\ instructions = <<>>
  /\ symbol_table = predefined_symbols
  /\ last_variable_location = InitialVariableLocation
  /\ ac_instructions = <<>>
  /\ idx = 0
  /\ out = <<>>
  /\ err = "none"

ParseCodeIdle ==
  /\ ppc = "idle"
  /\ enum_count = 0
  /\ line_num = 0
  /\ line = <<>>
  /\ instruction = <<>>
  /\ yielded = None
  /\ nyielded = 0
  /\ nskipped = 0
  /\ perr = 0

ParseIdle == token = <<>> /\ parsed = Some(parse(<<>>))

TranslateCIdle ==
  /\ cinstr = CInstruction(<<"0">>, None, None)
  /\ cresult = Some([raised |-> FALSE, text |-> <<>>])

\* translate
Init == TranslateInit /\ ParseCodeIdle /\ ParseIdle /\ TranslateCIdle

Next == TranslateNext

Spec == Init /\ [][Next]_vars

\* parse_code
InitParseCode == TranslateIdle /\ ParseCodeInit /\ ParseIdle /\ TranslateCIdle

NextParseCode == ParseCodeNext

SpecParseCode == InitParseCode /\ [][NextParseCode]_vars

\* parse
InitParse == TranslateIdle /\ ParseCodeIdle /\ ParseInit /\ TranslateCIdle

NextParse == ParseNext

SpecParse == InitParse /\ [][NextParse]_vars

\* translate_c_instruction
InitTranslateC == TranslateIdle /\ ParseCodeIdle /\ ParseIdle /\ TranslateCInit

NextTranslateC == TranslateCNext

SpecTranslateC == InitTranslateC /\ [][NextTranslateC]_vars

----------------------------------------------------------------------------
(* Vocabulary of the properties of translate *)

IsAC(x) == x.kind # "Label"

\* the address/compute instructions of the stream, in source order
SourceAC == SelectSeq(instructions, IsAC)

\* how many address/compute instructions stand strictly before position k
ACBefore(k) == Cardinality({j \in 1..(k - 1) : instructions[j].kind # "Label"})

\* the positions of the stream that hold a label with this name
LabelPositions(s) ==
  {k \in 1..Len(instructions) :
     instructions[k].kind = "Label" /\ instructions[k].symbol = s}

LabelNames == {instructions[k].symbol : k \in {j \in 1..Len(instructions) :
                                                instructions[j].kind = "Label"}}

\* the number a string of binary digits denotes
RECURSIVE DecodeBinary(_)
DecodeBinary(bits) ==
  IF Len(bits) = 0 THEN 0
  ELSE 2 * DecodeBinary(SubSeq(bits, 1, Len(bits) - 1))
         + (IF bits[Len(bits)] = "1" THEN 1 ELSE 0)

\* an address instruction that uses a variable: an identifier that is neither
\* a constant, nor predefined, nor a label of the stream
IsVariableUse(a) ==
  /\ a.kind = "A"
  /\ ~is_constant(a)
  /\ a.symbol \notin DOMAIN predefined_symbols
  /\ a.symbol \notin LabelNames

\* the distinct variables used by the first n emitted instructions, in the
\* order of their first use
RECURSIVE DistinctVars(_)
DistinctVars(n) ==
  IF n = 0 THEN <<>>
  ELSE LET prev == DistinctVars(n - 1)
           a == ac_instructions[n]
       IN IF IsVariableUse(a) /\ a.symbol \notin {prev[k] : k \in 1..Len(prev)}
          THEN Append(prev, a.symbol)
          ELSE prev

\* a duplicate label is the only ValueError translate raises
DuplicateRaised == pc = "error" /\ err = "ValueError"

----------------------------------------------------------------------------
(* C1: every label translate has accepted is bound in the symbol table to   *)
(* the number of address/compute instructions that stand strictly before   *)
(* it in the stream: 0 for a label at the very start, the total count for  *)
(* a label at the very end.                                                *)
C1_LabelAddress ==
  \A k \in 1..Len(instructions) :
    (instructions[k].kind = "Label" /\ ~(DuplicateRaised /\ k = Len(instructions)))
      => /\ instructions[k].symbol \in DOMAIN symbol_table
         /\ symbol_table[instructions[k].symbol] = ACBefore(k)

\* a finished run with a label at the very start, one in the middle of the
\* instructions and hence a non-zero address
C1_Witness ==
  /\ pc = "done"
  /\ Len(instructions) = MaxLen
  /\ instructions[1].kind = "Label"
  /\ instructions[Len(instructions)].kind = "Label"
  /\ symbol_table[instructions[1].symbol] = 0
  /\ symbol_table[instructions[Len(instructions)].symbol] = Len(instructions) - 2

(* C2: during the encoding pass variable addresses are handed out as 16,   *)
(* 17, 18, ... with no gaps and no repeats: the k-th distinct identifier   *)
(* that is neither predefined nor a label, in the order of its first use   *)
(* by an emitted address instruction, is bound to 15+k, these are the only *)
(* names the pass adds, and every use of the identifier is encoded as      *)
(* that address.                                                           *)
C2_VariableAllocation ==
  pc \in {"encode", "done", "error"} /\ ~DuplicateRaised =>
    LET vs == DistinctVars(idx)
    IN /\ \A k \in 1..Len(vs) :
            /\ vs[k] \in DOMAIN symbol_table
            /\ symbol_table[vs[k]] = 15 + k
            /\ \A n \in 1..idx :
                 (ac_instructions[n].kind = "A" /\ ac_instructions[n].symbol = vs[k])
                   => /\ Len(out[n]) = 16
                      /\ out[n][1] = "0"
                      /\ DecodeBinary(Tail(out[n])) = 15 + k
       /\ DOMAIN symbol_table \ (DOMAIN predefined_symbols \cup LabelNames)
            = {vs[k] : k \in 1..Len(vs)}
       /\ last_variable_location = 15 + Len(vs)

\* two variables were allocated after a label was bound, and the first one
\* was used again after the second was allocated
C2_Witness ==
  /\ pc = "done"
  /\ LabelNames # {}
  /\ Len(DistinctVars(idx)) = 2
  /\ \E m, n \in 1..idx :
       /\ m < n
       /\ IsVariableUse(ac_instructions[n])
       /\ ac_instructions[n].symbol = DistinctVars(idx)[1]
       /\ IsVariableUse(ac_instructions[m])
       /\ ac_instructions[m].symbol = DistinctVars(idx)[2]

----------------------------------------------------------------------------
\* an instruction the tables and the symbol table can encode
Encodable(ins) ==
  IF ins.kind = "C" THEN ~c_raises(ins)
  ELSE is_constant(ins) \/ ins.symbol \in DOMAIN symbol_table

\* the line an emitted instruction is encoded as, given the final table
ExpectedLine(ins) ==
  IF ins.kind = "C" THEN translate_c_instruction(ins)
  ELSE <<"0">> \o _convert_to_binary(
         IF is_constant(ins) THEN StrToInt(ins.symbol) ELSE symbol_table[ins.symbol],
         AddressBits)

(* C3: the lines emitted so far are the encodings of the first             *)
(* address/compute instructions of the stream, in source order, and a run  *)
(* that ends without error has emitted exactly one line per                *)
(* address/compute instruction: labels produce no line.                    *)
C3_OutputOrder ==
  /\ Len(out) <= Len(SourceAC)
  /\ \A i \in 1..Len(out) :
       Encodable(SourceAC[i]) /\ out[i] = ExpectedLine(SourceAC[i])
  /\ pc = "done" => Len(out) = Len(SourceAC)

\* a finished run over a stream that holds a label between an address and a
\* compute instruction
C3_Witness ==
  /\ pc = "done"
  /\ Len(out) >= 2
  /\ \E k \in 2..(Len(instructions) - 1) :
       /\ instructions[k].kind = "Label"
       /\ instructions[k - 1].kind = "A"
       /\ instructions[k + 1].kind = "C"

----------------------------------------------------------------------------
\* the binding a name has before translate reaches the label at position k:
\* its predefined address, or the address of the first label of that name
EarlierBinding(k) ==
  LET s == instructions[k].symbol
  IN IF s \in DOMAIN predefined_symbols THEN predefined_symbols[s]
     ELSE ACBefore(CHOOSE j \in LabelPositions(s) :
                     \A i \in LabelPositions(s) : j <= i)

\* the label at position k names something bound before position k
NameTaken(k) ==
  \/ instructions[k].symbol \in DOMAIN predefined_symbols
  \/ \E j \in LabelPositions(instructions[k].symbol) : j < k

(* C4: a label whose name is already in the symbol table when the label    *)
(* pass reaches it (a predefined name, or a label defined earlier in the   *)
(* stream) makes translate fail with the duplicate-symbol error: the pass  *)
(* never goes on past such a label, the existing binding is left as it     *)
(* was, and no line has been emitted.                                      *)
C4_DuplicateLabel ==
  /\ \A k \in 1..Len(instructions) :
       (instructions[k].kind = "Label" /\ NameTaken(k))
         => /\ DuplicateRaised
            /\ k = Len(instructions)
            /\ symbol_table[instructions[k].symbol] = EarlierBinding(k)
            /\ out = <<>>
  /\ DuplicateRaised
       => /\ instructions[Len(instructions)].kind = "Label"
          /\ NameTaken(Len(instructions))

\* the second label of a name arrives after an instruction, so that binding it
\* again would have changed its address
C4_Witness ==
  /\ DuplicateRaised
  /\ instructions[Len(instructions)].symbol \notin DOMAIN predefined_symbols
  /\ ACBefore(Len(instructions))
       # symbol_table[instructions[Len(instructions)].symbol]

----------------------------------------------------------------------------
(* C5: encoding an address instruction fails when its value does not fit   *)
(* in 15 bits, so every line emitted for an address instruction is exactly *)
(* 16 characters: a 0, then the value as a 15-bit binary field.            *)
C5_AddressLineWidth ==
  \A i \in 1..Len(out) :
    ac_instructions[i].kind = "A"
      => /\ Len(out[i]) = 16
         /\ out[i][1] = "0"
         /\ is_constant(ac_instructions[i])
              => /\ StrToInt(ac_instructions[i].symbol) < 32768
                 /\ DecodeBinary(Tail(out[i])) = StrToInt(ac_instructions[i].symbol)

----------------------------------------------------------------------------
\* the predefined bindings, written out
PredefinedBound ==
  /\ \A i \in 0..15 :
       /\ (<<"R">> \o IntToStr(i)) \in DOMAIN symbol_table
       /\ symbol_table[<<"R">> \o IntToStr(i)] = i
  /\ {<<"S", "P">>, <<"L", "C", "L">>, <<"A", "R", "G">>, <<"T", "H", "I", "S">>,
      <<"T", "H", "A", "T">>, <<"S", "C", "R", "E", "E", "N">>, <<"K", "B", "D">>}
       \subseteq DOMAIN symbol_table
  /\ symbol_table[<<"S", "P">>] = 0
  /\ symbol_table[<<"L", "C", "L">>] = 1
  /\ symbol_table[<<"A", "R", "G">>] = 2
  /\ symbol_table[<<"T", "H", "I", "S">>] = 3
  /\ symbol_table[<<"T", "H", "A", "T">>] = 4
  /\ symbol_table[<<"S", "C", "R", "E", "E", "N">>] = 16384
  /\ symbol_table[<<"K", "B", "D">>] = 24576

(* C8: the predefined bindings are in the symbol table from the start, and *)
(* no step of a run removes a name from the table or changes the address a *)
(* name is bound to: label definition and variable allocation only add     *)
(* names.                                                                  *)
C8_BindingsStable ==
  /\ PredefinedBound
  /\ [][\A s \in DOMAIN symbol_table :
          s \in DOMAIN symbol_table' /\ symbol_table'[s] = symbol_table[s]]_vars

\* the table holds a label bound to a non-zero address and a variable, and an
\* address instruction that names the label has been encoded
C8_Witness ==
  /\ pc = "done"
  /\ \E s \in LabelNames : symbol_table[s] > 0
  /\ last_variable_location > 15
  /\ \E n \in 1..idx :
       ac_instructions[n].kind = "A" /\ ac_instructions[n].symbol \in LabelNames

----------------------------------------------------------------------------
(* C9: translate emits its first line only after the label pass has        *)
(* consumed the whole stream, so an address instruction that names a label *)
(* of the stream, defined before or after it, is encoded as that label's   *)
(* address, and no variable is allocated for the name.                     *)
C9_ForwardReference ==
  /\ pc = "labels" => out = <<>> /\ idx = 0
  /\ \A n \in 1..Len(out) :
       (/\ ac_instructions[n].kind = "A"
        /\ ~is_constant(ac_instructions[n])
        /\ ac_instructions[n].symbol \in LabelNames)
         => \E k \in LabelPositions(ac_instructions[n].symbol) :
              /\ DecodeBinary(Tail(out[n])) = ACBefore(k)
              /\ symbol_table[ac_instructions[n].symbol] = ACBefore(k)
  /\ ~DuplicateRaised => last_variable_location = 15 + Len(DistinctVars(idx))

\* an emitted address instruction names a label that stands later in the
\* stream, behind at least one more instruction
C9_Witness ==
  /\ pc = "done"
  /\ \E p, q \in 1..Len(instructions) :
       /\ p < q
       /\ instructions[p].kind = "A"
       /\ instructions[q].kind = "Label"
       /\ instructions[q].symbol = instructions[p].symbol
       /\ ACBefore(q) >= 2
       /\ DecodeBinary(Tail(out[ACBefore(p) + 1])) = ACBefore(q)

----------------------------------------------------------------------------
(* Vocabulary of the properties of the parser *)

\* a token parse treats as a compute instruction
IsComputeToken(t) ==
  /\ ~(Len(t) > 0 /\ t[1] = "@")
  /\ ~(Len(t) > 0 /\ t[1] = "(" /\ t[Len(t)] = ")")

\* a compute instruction with more than one "=" or more than one ";"
Malformed(t) ==
  /\ IsComputeToken(t)
  /\ \/ Cardinality({i \in 1..Len(t) : t[i] = "="}) > 1
     \/ Cardinality({i \in 1..Len(t) : t[i] = ";"}) > 1

\* the position of the only c in t, 0 when t holds none
Position(t, c) ==
  IF \E i \in 1..Len(t) : t[i] = c THEN CHOOSE i \in 1..Len(t) : t[i] = c ELSE 0

(* C6: parse_code fails on the first line whose token is a malformed       *)
(* compute instruction: a run that is not failed has met no such line, a   *)
(* failed run has just read one, the number in its error is the 1-based    *)
(* position of that line among all raw lines read (the skipped ones        *)
(* counted), and nothing is parsed after it.                               *)
C6_FirstMalformedLine ==
  /\ (ppc # "error" /\ enum_count > 0) => ~Malformed(preprocess(line))
  /\ ppc = "error"
       => /\ Malformed(preprocess(line))
          /\ perr = nskipped + nyielded + 1
          /\ perr = enum_count
          /\ ~ENABLED ParseCodeNext

\* the failing line comes after a skipped line and after a parsed one
C6_Witness ==
  /\ ppc = "error"
  /\ nskipped >= 1
  /\ nyielded >= 1
  /\ Cardinality({i \in 1..Len(instruction) : instruction[i] = ";"}) > 1
  /\ Len(line) > Len(instruction)

----------------------------------------------------------------------------
\* the fields the splitting rule gives a token with one "=" at most and one
\* ";" at most: dest is the text before the "=", comp the text after it up to
\* the ";", jump the text after the ";"
RuleFields(t) ==
  LET eq == Position(t, "=")
      sc == Position(t, ";")
      stop == IF sc > eq THEN sc - 1 ELSE Len(t)
  IN CInstruction(SubSeq(t, eq + 1, stop),
                  IF eq # 0 THEN Some(SubSeq(t, 1, eq - 1)) ELSE None,
                  IF sc # 0 THEN Some(SubSeq(t, sc + 1, Len(t))) ELSE None)

AtMostOneOfEach(t) ==
  /\ Cardinality({i \in 1..Len(t) : t[i] = "="}) <= 1
  /\ Cardinality({i \in 1..Len(t) : t[i] = ";"}) <= 1

(* C10, as stated: for every compute token with one "=" at most and one    *)
(* ";" at most, in either order, parse returns the fields of the splitting *)
(* rule.                                                                   *)
C10_SplitEitherOrder ==
  (Len(parsed) = 1 /\ IsComputeToken(token) /\ AtMostOneOfEach(token))
    => /\ ~parsed[1].raised
       /\ parsed[1].value = RuleFields(token)

(* C10, amended: for every compute token with one "=" at most and one ";"  *)
(* at most, where the "=" stands before the ";" when both are present,     *)
(* parse returns the fields of the splitting rule: with "=", dest is the   *)
(* text before it and comp the text after it up to the ";"; without "=",   *)
(* dest is absent and comp is the text before the ";" (or the whole        *)
(* token); jump is the text after the ";", and absent without one.         *)
C10_SplitInOrder ==
  (/\ Len(parsed) = 1
   /\ IsComputeToken(token)
   /\ AtMostOneOfEach(token)
   /\ (Position(token, "=") # 0 /\ Position(token, ";") # 0)
        => Position(token, "=") < Position(token, ";"))
    => /\ ~parsed[1].raised
       /\ parsed[1].value = RuleFields(token)

\* a token with dest, comp and jump all present and not empty has been parsed
C10_Witness ==
  /\ Len(parsed) = 1
  /\ IsComputeToken(token)
  /\ Position(token, "=") > 1
  /\ Position(token, ";") > Position(token, "=") + 1
  /\ Position(token, ";") < Len(token)
  /\ AtMostOneOfEach(token)
  /\ ~parsed[1].raised
  /\ parsed[1].value.dest # None
  /\ parsed[1].value.jump # None

----------------------------------------------------------------------------
(* Vocabulary of the properties of translate_c_instruction *)

\* the 28 comp mnemonics
CompMnemonics ==
  { <<"0">>, <<"1">>, <<"-", "1">>, <<"D">>, <<"A">>, <<"!", "D">>, <<"!", "A">>,
    <<"-", "D">>, <<"-", "A">>, <<"D", "+", "1">>, <<"A", "+", "1">>,
    <<"D", "-", "1">>, <<"A", "-", "1">>, <<"D", "+", "A">>, <<"D", "-", "A">>,
    <<"A", "-", "D">>, <<"D", "&", "A">>, <<"D", "|", "A">>, <<"M">>, <<"!", "M">>,
    <<"-", "M">>, <<"M", "+", "1">>, <<"M", "-", "1">>, <<"D", "+", "M">>,
    <<"D", "-", "M">>, <<"M", "-", "D">>, <<"D", "&", "M">>, <<"D", "|", "M">> }

\* the dest and jump fields the tables know: absent, or one of 7 mnemonics
DestFields ==
  { None, Some(<<"M">>), Some(<<"D">>), Some(<<"D", "M">>), Some(<<"A">>),
    Some(<<"A", "M">>), Some(<<"A", "D">>), Some(<<"A", "D", "M">>) }

JumpFields ==
  { None, Some(<<"J", "G", "T">>), Some(<<"J", "E", "Q">>), Some(<<"J", "G", "E">>),
    Some(<<"J", "L", "T">>), Some(<<"J", "N", "E">>), Some(<<"J", "L", "E">>),
    Some(<<"J", "M", "P">>) }

\* the line is 111, then 7 comp bits, 3 dest bits and 3 jump bits from the
\* tables, with 000 for an absent dest or jump
WellEncoded(c, text) ==
  /\ Len(text) = 16
  /\ \A i \in 1..16 : text[i] \in {"0", "1"}
  /\ SubSeq(text, 1, 3) = <<"1", "1", "1">>
  /\ SubSeq(text, 4, 10) = COMP_TRANSLATION_TABLE[c.comp]
  /\ SubSeq(text, 11, 13) = DEST_TRANSLATION_TABLE[c.dest]
  /\ SubSeq(text, 14, 16) = JMP_TRANSLATION_TABLE[c.jump]
  /\ c.dest = None => SubSeq(text, 11, 13) = <<"0", "0", "0">>
  /\ c.jump = None => SubSeq(text, 14, 16) = <<"0", "0", "0">>

\* no other compute instruction that can be encoded gets the same line
Distinct(c, text) ==
  \A other \in CInstrSet :
    (other # c /\ ~c_raises(other)) => translate_c_instruction(other) # text

(* C7, as stated: every compute instruction whose comp is one of the 28    *)
(* table mnemonics is encoded as 111 + comp + dest + jump bits, distinct   *)
(* instructions get distinct lines, and a comp outside the table makes the *)
(* encoding fail.                                                          *)
C7_EncodesEveryKnownComp ==
  Len(cresult) = 1 =>
    /\ cinstr.comp \in CompMnemonics
         => /\ ~cresult[1].raised
            /\ WellEncoded(cinstr, cresult[1].text)
            /\ Distinct(cinstr, cresult[1].text)
    /\ cinstr.comp \notin CompMnemonics => cresult[1].raised

(* C7, amended: every compute instruction whose comp is one of the 28      *)
(* table mnemonics, and whose dest and jump are each absent or one of the  *)
(* 7 mnemonics of their tables, is encoded as 111 + the 7-bit comp code +  *)
(* the 3-bit dest code + the 3-bit jump code, an absent dest or jump as    *)
(* 000; two such instructions that differ in comp, dest or jump get        *)
(* different 16-bit lines; and a comp, dest or jump that is not in its     *)
(* table makes the encoding fail instead of producing a line.              *)
C7_EncodesKnownFields ==
  Len(cresult) = 1 =>
    /\ (/\ cinstr.comp \in CompMnemonics
        /\ cinstr.dest \in DestFields
        /\ cinstr.jump \in JumpFields)
         => /\ ~cresult[1].raised
            /\ WellEncoded(cinstr, cresult[1].text)
            /\ Distinct(cinstr, cresult[1].text)
    /\ (\/ cinstr.comp \notin CompMnemonics
        \/ cinstr.dest \notin DestFields
        \/ cinstr.jump \notin JumpFields)
         => cresult[1].raised /\ cresult[1].text = <<>>
    /\ cinstr = CInstruction(<<"1">>, Some(<<"M">>), None)
         => cresult[1].text = <<"1", "1", "1", "0", "1", "1", "1", "1", "1", "1",
                                "0", "0", "1", "0", "0", "0">>

\* an instruction with no dest and with a jump has been encoded
C7_Witness ==
  /\ Len(cresult) = 1
  /\ cinstr = CInstruction(<<"D">>, None, Some(<<"J", "G", "T">>))
  /\ cresult[1].text = <<"1", "1", "1", "0", "0", "0", "1", "1", "0", "0",
                         "0", "0", "0", "0", "0", "1">>

====
